---- MODULE Spec2Model ----
(***************************************************************************)
(* Appointment-scheduling core of src/psychitrist/backend.py.              *)
(*                                                                         *)
(* The state is the SQLite database (the three tables patients,            *)
(* appointments, availability_exceptions) and the response of the last     *)
(* request.  An instant (a naive datetime) is a number of seconds since    *)
(* 00:00:00 of day 0; a date is a day number.  Every handler is an         *)
(* operator from a database value and its request to a response and a new  *)
(* database value, and an action that applies it.                          *)
(*                                                                         *)
(* Not modelled: Appointment.created_at (written once at insert from the   *)
(* wall clock, read by no handler), AvailabilityException.reason, and the  *)
(* label text of a free slot.                                              *)
(***************************************************************************)
EXTENDS Integers, Sequences, FiniteSets, TLC

VARIABLES db, last, calls

vars == <<db, last, calls>>

----------------------------------------------------------------------------
(* Bounds of the model.                                                    *)

\* largest primary key the model lets the appointments table hand out
MaxApptId == 2
\* largest primary key the model lets the availability_exceptions table hand out
MaxBlockId == 2
\* number of threads of the server's pool that serve overlapping requests
NumWorkers == 2

----------------------------------------------------------------------------
(* Time.                                                                   *)

SecondsPerDay == 24 * 60 * 60

\* datetime(day d, hh:mm:ss)
At(d, hh, mm, ss) == ((d * 24 + hh) * 60 + mm) * 60 + ss

\* datetime.date()
DateOf(dt) == dt \div SecondsPerDay

\* datetime.minute
MinuteOf(dt) == (dt \div 60) % 60

\* datetime.combine(date, time)
Combine(d, t) == d * SecondsPerDay + t

\* timedelta(minutes=30)
HalfHour == 30 * 60

\* get_office_hours(): the times 09:00 and 17:00, as seconds into the day
get_office_hours == [start |-> 9 * 60 * 60, end |-> 17 * 60 * 60]

\* _has_overlap(s1, e1, s2, e2)
_has_overlap(s1, e1, s2, e2) == s1 < e2 /\ s2 < e1

----------------------------------------------------------------------------
(* The requests the model issues.                                          *)

Phones == {"+1000"}

Notes == {"n"}

\* the instants a request may carry: day 0 at 08:00:30, 08:15, 08:30, 09:00,
\* 09:00:30, 09:15, 09:30, 16:30, 17:00 and day 1 at 09:00
Instants ==
    { At(0, 8, 0, 30), At(0, 8, 15, 0), At(0, 8, 30, 0), At(0, 9, 0, 0),
      At(0, 9, 0, 30), At(0, 9, 15, 0), At(0, 9, 30, 0), At(0, 16, 30, 0),
      At(0, 17, 0, 0), At(1, 9, 0, 0) }

\* the endpoints a block request may carry
BlockStarts ==
    { At(0, 8, 30, 0), At(0, 9, 0, 0), At(0, 9, 0, 30), At(0, 9, 15, 0),
      At(0, 9, 30, 0), At(0, 16, 30, 0) }

BlockEnds ==
    { At(0, 9, 0, 0), At(0, 9, 15, 0), At(0, 9, 30, 0), At(0, 16, 30, 0),
      At(1, 9, 0, 0) }

Dates == {0, 1}

----------------------------------------------------------------------------
(* Tables: a table is a function from the primary keys of its rows.        *)

EmptyTable == << >>

SetMax(S) == CHOOSE x \in S : \A y \in S : y <= x

\* the rowid SQLite gives a new row of an INTEGER PRIMARY KEY table:
\* one more than the largest rowid in the table, 1 for an empty table
NextId(table) ==
    IF DOMAIN table = {} THEN 1 ELSE SetMax(DOMAIN table) + 1

\* db.add(row); db.commit()
Insert(table, row) ==
    LET id == NextId(table)
    IN  [i \in DOMAIN table \cup {id} |-> IF i = id THEN row ELSE table[i]]

\* db.delete(row); db.commit()
Delete(table, id) == [i \in DOMAIN table \ {id} |-> table[i]]

\* an HTTP response: the status code and the detail of the HTTPException
Ok == [code |-> 200, detail |-> "ok"]

Http(code, detail) == [code |-> code, detail |-> detail]

Reply(response, D) == [response |-> response, db |-> D]

\* an exception no handler catches: the framework answers 500
ServerError == Http(500, "Internal Server Error")

----------------------------------------------------------------------------
(* Checks shared by the handlers' code.                                    *)

\* `dt.minute not in (0, 30)` is the rejection; this is its negation
OnGrid(dt) == MinuteOf(dt) \in {0, 30}

\* an office-hours check that looks at the start only
WithinOfficeHoursOfStart(start_dt, end_dt) ==
    LET office_start_dt == Combine(DateOf(start_dt), get_office_hours.start)
        office_end_dt   == Combine(DateOf(start_dt), get_office_hours.end)
    IN  office_start_dt <= start_dt /\ start_dt <= office_end_dt

\* office_start_dt <= start_dt and end_dt <= office_end_dt, with the office
\* hours combined with the date of start_dt
WithinOfficeHours(start_dt, end_dt) ==
    LET office_start_dt == Combine(DateOf(start_dt), get_office_hours.start)
        office_end_dt   == Combine(DateOf(start_dt), get_office_hours.end)
    IN  office_start_dt <= start_dt /\ end_dt <= office_end_dt

----------------------------------------------------------------------------
(* POST /patients/upsert                                                   *)

PatientsByPhone(D, phone) ==
    {id \in DOMAIN D.patients : D.patients[id].phone = phone}

upsert_patient(D, p) ==
    LET found == PatientsByPhone(D, p.phone)
    IN  IF found # {}
        THEN LET id == CHOOSE i \in found : TRUE
             IN  Reply(Ok, [D EXCEPT !.patients[id].name = p.name,
                                     !.patients[id].notes = p.notes])
        ELSE Reply(Ok, [D EXCEPT !.patients =
                 Insert(@, [name |-> p.name, phone |-> p.phone, notes |-> p.notes])])

----------------------------------------------------------------------------
(* POST /appointments/book                                                 *)

\* the query over availability_exceptions of book_appointment
book_blocked(D, start_dt, end_dt) ==
    \E id \in DOMAIN D.availability_exceptions :
        /\ D.availability_exceptions[id].start_time < end_dt
        /\ D.availability_exceptions[id].end_time > start_dt

\* a conflict query that matches only an appointment with the same start
book_taken_same_start(D, start_dt, end_dt) ==
    \E id \in DOMAIN D.appointments :
        D.appointments[id].start_time = start_dt

\* the query over appointments of book_appointment
book_taken(D, start_dt, end_dt) ==
    \E id \in DOMAIN D.appointments :
        /\ D.appointments[id].start_time < end_dt
        /\ D.appointments[id].end_time > start_dt

\* a booking that resets the name and the notes of the patient it finds
book_patient_resets_name(D, phone) ==
    IF PatientsByPhone(D, phone) # {}
    THEN LET id == CHOOSE i \in PatientsByPhone(D, phone) : TRUE
         IN  [D EXCEPT !.patients[id].name = phone, !.patients[id].notes = ""]
    ELSE [D EXCEPT !.patients =
             Insert(@, [name |-> phone, phone |-> phone, notes |-> ""])]

\* the patient of the booking: the row with the phone, created (and
\* committed) with name = phone and empty notes when there is none
book_patient(D, phone) ==
    IF PatientsByPhone(D, phone) # {}
    THEN D
    ELSE [D EXCEPT !.patients =
             Insert(@, [name |-> phone, phone |-> phone, notes |-> ""])]

book_insert(D, phone, start_dt, end_dt, note) ==
    LET D1         == book_patient(D, phone)
        patient_id == CHOOSE i \in PatientsByPhone(D1, phone) : TRUE
    IN  [D1 EXCEPT !.appointments =
            Insert(@, [patient_id |-> patient_id, start_time |-> start_dt,
                       end_time |-> end_dt, note |-> note])]

\* book_appointment resolving the patient before its conflict queries
book_appointment_patient_first(D, b) ==
    LET start_dt == b.start_time
        end_dt   == start_dt + HalfHour
        D1       == book_patient(D, b.phone)
    IN  IF ~OnGrid(start_dt)
        THEN Reply(Http(400, "Start time must align on 30-minute boundaries."), D)
        ELSE IF ~WithinOfficeHours(start_dt, end_dt)
        THEN Reply(Http(400, "Time is outside office hours."), D)
        ELSE IF book_blocked(D, start_dt, end_dt)
        THEN Reply(Http(400, "Time falls within a blocked period."), D1)
        ELSE IF book_taken(D, start_dt, end_dt)
        THEN Reply(Http(400, "Slot already booked."), D1)
        ELSE Reply(Ok, book_insert(D, b.phone, start_dt, end_dt, b.note))

book_appointment(D, b) ==
    LET start_dt == b.start_time
        end_dt   == start_dt + HalfHour
    IN  IF ~OnGrid(start_dt)
        THEN Reply(Http(400, "Start time must align on 30-minute boundaries."), D)
        ELSE IF ~WithinOfficeHours(start_dt, end_dt)
        THEN Reply(Http(400, "Time is outside office hours."), D)
        ELSE IF book_blocked(D, start_dt, end_dt)
        THEN Reply(Http(400, "Time falls within a blocked period."), D)
        ELSE IF book_taken(D, start_dt, end_dt)
        THEN Reply(Http(400, "Slot already booked."), D)
        ELSE Reply(Ok, book_insert(D, b.phone, start_dt, end_dt, b.note))

----------------------------------------------------------------------------
(* PUT /appointments/{appt_id}                                             *)

\* the query over availability_exceptions of update_appointment
update_blocked(D, new_start_dt, new_end_dt) ==
    \E id \in DOMAIN D.availability_exceptions :
        /\ D.availability_exceptions[id].start_time < new_end_dt
        /\ D.availability_exceptions[id].end_time > new_start_dt

\* the query over appointments of update_appointment
update_taken(D, appt_id, new_start_dt, new_end_dt) ==
    \E id \in DOMAIN D.appointments :
        /\ D.appointments[id].start_time < new_end_dt
        /\ D.appointments[id].end_time > new_start_dt
        /\ id # appt_id

\* a reschedule that deletes the row and inserts a new one
update_write_reinsert(D, appt_id, new_start_dt, new_end_dt) ==
    LET old == D.appointments[appt_id]
    IN  [D EXCEPT !.appointments =
            Insert(Delete(@, appt_id),
                   [old EXCEPT !.start_time = new_start_dt,
                               !.end_time = new_end_dt])]

\* appointment.start_time = ...; appointment.end_time = ...; db.commit()
update_write(D, appt_id, new_start_dt, new_end_dt) ==
    [D EXCEPT !.appointments[appt_id].start_time = new_start_dt,
              !.appointments[appt_id].end_time = new_end_dt]

\* a reschedule that also empties the note of the appointment
update_appointment_drops_note(D, appt_id, payload) ==
    LET new_start_dt == payload.new_start_time
        new_end_dt   == new_start_dt + HalfHour
    IN  IF ~OnGrid(new_start_dt)
        THEN Reply(Http(400, "Start time must align on 30-minute boundaries."), D)
        ELSE IF ~WithinOfficeHours(new_start_dt, new_end_dt)
        THEN Reply(Http(400, "Time is outside office hours."), D)
        ELSE IF appt_id \notin DOMAIN D.appointments
        THEN Reply(Http(404, "Appointment not found."), D)
        ELSE IF update_blocked(D, new_start_dt, new_end_dt)
        THEN Reply(Http(400, "Time falls within a blocked period."), D)
        ELSE IF update_taken(D, appt_id, new_start_dt, new_end_dt)
        THEN Reply(Http(400, "Slot already booked."), D)
        ELSE Reply(Ok, [update_write(D, appt_id, new_start_dt, new_end_dt)
                            EXCEPT !.appointments[appt_id].note = ""])

update_appointment(D, appt_id, payload) ==
    LET new_start_dt == payload.new_start_time
        new_end_dt   == new_start_dt + HalfHour
    IN  IF ~OnGrid(new_start_dt)
        THEN Reply(Http(400, "Start time must align on 30-minute boundaries."), D)
        ELSE IF ~WithinOfficeHours(new_start_dt, new_end_dt)
        THEN Reply(Http(400, "Time is outside office hours."), D)
        ELSE IF appt_id \notin DOMAIN D.appointments
        THEN Reply(Http(404, "Appointment not found."), D)
        ELSE IF update_blocked(D, new_start_dt, new_end_dt)
        THEN Reply(Http(400, "Time falls within a blocked period."), D)
        ELSE IF update_taken(D, appt_id, new_start_dt, new_end_dt)
        THEN Reply(Http(400, "Slot already booked."), D)
        ELSE Reply(Ok, update_write(D, appt_id, new_start_dt, new_end_dt))

----------------------------------------------------------------------------
(* DELETE /appointments/{appt_id}                                          *)

\* a delete that also removes the patient left without an appointment
delete_appointment_orphan_patient(D, appt_id) ==
    IF appt_id \notin DOMAIN D.appointments
    THEN Reply(Http(404, "Appointment not found."), D)
    ELSE LET rest == Delete(D.appointments, appt_id)
             pid  == D.appointments[appt_id].patient_id
             used == \E a \in DOMAIN rest : rest[a].patient_id = pid
         IN  Reply(Ok, [D EXCEPT !.appointments = rest,
                                 !.patients = IF used THEN @ ELSE Delete(@, pid)])

delete_appointment(D, appt_id) ==
    IF appt_id \notin DOMAIN D.appointments
    THEN Reply(Http(404, "Appointment not found."), D)
    ELSE Reply(Ok, [D EXCEPT !.appointments = Delete(@, appt_id)])

----------------------------------------------------------------------------
(* GET /availability                                                       *)

\* the while loop that fills all_slots: every 30-minute slot from current
\* while current < base_end
RECURSIVE all_slots(_, _)
all_slots(current, base_end) ==
    IF current < base_end
    THEN <<[start |-> current, end |-> current + HalfHour]>>
             \o all_slots(current + HalfHour, base_end)
    ELSE << >>

\* the appointments the handler loads for target_date
booked_appointments(D, target_date) ==
    {id \in DOMAIN D.appointments :
        /\ D.appointments[id].start_time
               >= Combine(target_date, get_office_hours.start)
        /\ D.appointments[id].end_time
               <= Combine(target_date, get_office_hours.end)}

\* the exceptions the handler loads for target_date
blocked_exceptions(D, target_date) ==
    {id \in DOMAIN D.availability_exceptions :
        /\ D.availability_exceptions[id].start_time
               >= Combine(target_date, get_office_hours.start)
        /\ D.availability_exceptions[id].end_time
               <= Combine(target_date, get_office_hours.end)}

is_booked(D, target_date, slot) ==
    \E id \in booked_appointments(D, target_date) :
        _has_overlap(slot.start, slot.end,
                     D.appointments[id].start_time, D.appointments[id].end_time)

is_blocked(D, target_date, slot) ==
    \E id \in blocked_exceptions(D, target_date) :
        _has_overlap(slot.start, slot.end,
                     D.availability_exceptions[id].start_time,
                     D.availability_exceptions[id].end_time)

\* the free slots with the latest slot first
get_available_slots_latest_first(D, target_date) ==
    LET current  == Combine(target_date, get_office_hours.start)
        base_end == Combine(target_date, get_office_hours.end)
        keep(slot) == ~is_booked(D, target_date, slot)
                          /\ ~is_blocked(D, target_date, slot)
        free == SelectSeq(all_slots(current, base_end), keep)
    IN  [i \in 1..Len(free) |-> free[Len(free) + 1 - i]]

\* the "slots" of the response, in the order of all_slots
get_available_slots(D, target_date) ==
    LET current  == Combine(target_date, get_office_hours.start)
        base_end == Combine(target_date, get_office_hours.end)
        keep(slot) == ~is_booked(D, target_date, slot)
                          /\ ~is_blocked(D, target_date, slot)
    IN  SelectSeq(all_slots(current, base_end), keep)

----------------------------------------------------------------------------
(* POST /availability/block                                                *)

\* block_availability without its check for existing appointments
block_ignores_appointments(D, start_dt, end_dt) == FALSE

\* the query over appointments of block_availability
block_hits_appointment(D, start_dt, end_dt) ==
    \E id \in DOMAIN D.appointments :
        /\ D.appointments[id].start_time < end_dt
        /\ D.appointments[id].end_time > start_dt

\* an exceptions query that matches only an exception with the same start
block_hits_exception_same_start(D, start_dt, end_dt) ==
    \E id \in DOMAIN D.availability_exceptions :
        D.availability_exceptions[id].start_time = start_dt

\* the query over availability_exceptions of block_availability
block_hits_exception(D, start_dt, end_dt) ==
    \E id \in DOMAIN D.availability_exceptions :
        /\ D.availability_exceptions[id].start_time < end_dt
        /\ D.availability_exceptions[id].end_time > start_dt

block_insert(D, start_dt, end_dt) ==
    [D EXCEPT !.availability_exceptions =
        Insert(@, [start_time |-> start_dt, end_time |-> end_dt])]

block_availability(D, b) ==
    LET start_dt == b.start_time
        end_dt   == b.end_time
    IN  IF start_dt >= end_dt
        THEN Reply(Http(400, "start_time must be before end_time"), D)
        ELSE IF ~OnGrid(start_dt) \/ ~OnGrid(end_dt)
        THEN Reply(Http(400, "Blocks must align to 30-minute boundaries."), D)
        ELSE IF block_hits_appointment(D, start_dt, end_dt)
        THEN Reply(Http(400, "Cannot block this time; it is already booked by an existing appointment."), D)
        ELSE IF block_hits_exception(D, start_dt, end_dt)
        THEN Reply(Http(400, "Time falls within a pre-existing blocked period."), D)
        ELSE Reply(Ok, block_insert(D, start_dt, end_dt))

----------------------------------------------------------------------------
(* DELETE /availability/blocks/{block_id}                                  *)

\* a delete that empties the availability_exceptions table
delete_block_clears_table(D, block_id) ==
    IF block_id \notin DOMAIN D.availability_exceptions
    THEN Reply(Http(404, "Block not found."), D)
    ELSE Reply(Ok, [D EXCEPT !.availability_exceptions = EmptyTable])

delete_block(D, block_id) ==
    IF block_id \notin DOMAIN D.availability_exceptions
    THEN Reply(Http(404, "Block not found."), D)
    ELSE Reply(Ok, [D EXCEPT !.availability_exceptions = Delete(@, block_id)])

----------------------------------------------------------------------------
(* The requests in flight: each worker thread serves one request at a      *)
(* time, in its own session; calls[w] holds the handler's position and     *)
(* local variables.                                                        *)

Workers == 1..NumWorkers

Idle == [op |-> "idle"]

----------------------------------------------------------------------------
(* The requests served one at a time.                                      *)

\* startup_db(): Base.metadata.create_all on a new database file
Init ==
    /\ db = [patients |-> EmptyTable, appointments |-> EmptyTable,
             availability_exceptions |-> EmptyTable]
    /\ last = [op |-> "startup", response |-> Ok]
    /\ calls = [w \in Workers |-> Idle]

\* the model serves a request only while the primary keys stay in bounds
InBounds(D) ==
    /\ DOMAIN D.appointments \subseteq 1..MaxApptId
    /\ DOMAIN D.availability_exceptions \subseteq 1..MaxBlockId

Serve(op, r) ==
    /\ InBounds(r.db)
    /\ db' = r.db
    /\ last' = [op |-> op, response |-> r.response]
    /\ UNCHANGED calls

Upsert(phone, name, notes) ==
    Serve("upsert", upsert_patient(db, [name |-> name, phone |-> phone, notes |-> notes]))

Book(phone, start_time, note) ==
    Serve("book", book_appointment(db,
        [phone |-> phone, start_time |-> start_time, note |-> note]))

Reschedule(appt_id, new_start_time) ==
    Serve("reschedule", update_appointment(db, appt_id,
        [new_start_time |-> new_start_time]))

Cancel(appt_id) ==
    Serve("cancel", delete_appointment(db, appt_id))

Block(start_time, end_time) ==
    Serve("block", block_availability(db,
        [start_time |-> start_time, end_time |-> end_time]))

RemoveException(block_id) ==
    Serve("removeException", delete_block(db, block_id))

\* GET /availability?date=...: the response carries the free slots
Availability(target_date) ==
    /\ db' = db
    /\ last' = [op |-> "availability", response |-> Ok,
                slots |-> get_available_slots(db, target_date)]
    /\ UNCHANGED calls

\* the ids a request may name: those that can be stored and one that cannot
ApptIds == 1..(MaxApptId + 1)

BlockIds == 1..(MaxBlockId + 1)

Next ==
    \/ \E phone \in Phones : Upsert(phone, "Alice", "x")
    \/ \E phone \in Phones, t \in Instants, note \in Notes : Book(phone, t, note)
    \/ \E id \in ApptIds, t \in Instants : Reschedule(id, t)
    \/ \E id \in ApptIds : Cancel(id)
    \/ \E s \in BlockStarts, e \in BlockEnds : Block(s, e)
    \/ \E id \in BlockIds : RemoveException(id)
    \/ \E d \in Dates : Availability(d)

Spec == Init /\ [][Next]_vars

----------------------------------------------------------------------------
(* The request bodies as text.  The text of a datetime is the tuple of the *)
(* fields of "<date>T<hh>:<mm>:<ss>"; datetime.fromisoformat gives the     *)
(* datetime of a text whose fields are in range and raises ValueError for  *)
(* any other text.  No handler catches the ValueError of the parse of a    *)
(* request body.                                                           *)

\* day 0 at 09:00:00, 09:30:00, 10:00:00 and the texts "" (empty),
\* "T25:00:00" and "T09:60:00" of day 0
IsoTexts ==
    { <<0, 9, 0, 0>>, <<0, 9, 30, 0>>, <<0, 10, 0, 0>>,
      << >>, <<0, 25, 0, 0>>, <<0, 9, 60, 0>> }

\* datetime.fromisoformat(text): ok with the datetime, or not ok (ValueError)
fromisoformat(text) ==
    IF /\ Len(text) = 4
       /\ text[1] \in Nat
       /\ text[2] \in 0..23
       /\ text[3] \in 0..59
       /\ text[4] \in 0..59
    THEN [ok |-> TRUE, value |-> At(text[1], text[2], text[3], text[4])]
    ELSE [ok |-> FALSE]

\* POST /appointments/book with the body as sent
book_appointment_request(D, b) ==
    LET start_dt == fromisoformat(b.start_time)
    IN  IF ~start_dt.ok
        THEN Reply(ServerError, D)
        ELSE book_appointment(D, [b EXCEPT !.start_time = start_dt.value])

\* PUT /appointments/{appt_id} with the body as sent
update_appointment_request(D, appt_id, payload) ==
    LET new_start_dt == fromisoformat(payload.new_start_time)
    IN  IF ~new_start_dt.ok
        THEN Reply(ServerError, D)
        ELSE update_appointment(D, appt_id,
                 [payload EXCEPT !.new_start_time = new_start_dt.value])

\* POST /availability/block with the body as sent
block_availability_request(D, b) ==
    LET start_dt == fromisoformat(b.start_time)
        end_dt   == fromisoformat(b.end_time)
    IN  IF ~start_dt.ok \/ ~end_dt.ok
        THEN Reply(ServerError, D)
        ELSE block_availability(D, [b EXCEPT !.start_time = start_dt.value,
                                             !.end_time = end_dt.value])

BookText(phone, start_time, note) ==
    Serve("book", book_appointment_request(db,
        [phone |-> phone, start_time |-> start_time, note |-> note]))

RescheduleText(appt_id, new_start_time) ==
    Serve("reschedule", update_appointment_request(db, appt_id,
        [new_start_time |-> new_start_time]))

BlockText(start_time, end_time) ==
    Serve("block", block_availability_request(db,
        [start_time |-> start_time, end_time |-> end_time]))

NextText ==
    \/ \E phone \in Phones, text \in IsoTexts, note \in Notes :
           BookText(phone, text, note)
    \/ \E id \in ApptIds, text \in IsoTexts : RescheduleText(id, text)
    \/ \E s \in IsoTexts, e \in IsoTexts : BlockText(s, e)
    \/ \E id \in ApptIds : Cancel(id)
    \/ \E id \in BlockIds : RemoveException(id)

SpecText == Init /\ [][NextText]_vars

----------------------------------------------------------------------------
(* GET /availability?day_of_week=...&ref_date=...  A day-of-week name is   *)
(* the sequence of its characters; day 0 is a Monday.                      *)

\* date.weekday(): Monday is 0, Sunday is 6
weekday(d) == d % 7

Uppercase == <<"A", "B", "C", "D", "E", "F", "G", "H", "I", "J", "K", "L", "M", "N", "O", "P", "Q", "R", "S", "T", "U", "V", "W", "X", "Y", "Z">>

Lowercase == <<"a", "b", "c", "d", "e", "f", "g", "h", "i", "j", "k", "l", "m", "n", "o", "p", "q", "r", "s", "t", "u", "v", "w", "x", "y", "z">>

\* str.lower()
lower(str) ==
    [i \in 1..Len(str) |->
        IF \E k \in 1..Len(Uppercase) : Uppercase[k] = str[i]
        THEN Lowercase[CHOOSE k \in 1..Len(Uppercase) : Uppercase[k] = str[i]]
        ELSE str[i]]

\* str.strip(): without the leading and the trailing blanks
strip(str) ==
    LET inked == {i \in 1..Len(str) : str[i] # " "}
    IN  IF inked = {} THEN << >>
        ELSE SubSeq(str, CHOOSE i \in inked : \A j \in inked : i <= j, SetMax(inked))

\* str[:3]
first3(str) == SubSeq(str, 1, IF Len(str) < 3 THEN Len(str) ELSE 3)

dow_map ==
    (<<"m", "o", "n">> :> 0) @@
    (<<"t", "u", "e">> :> 1) @@
    (<<"w", "e", "d">> :> 2) @@
    (<<"t", "h", "u">> :> 3) @@
    (<<"f", "r", "i">> :> 4) @@
    (<<"s", "a", "t">> :> 5) @@
    (<<"s", "u", "n">> :> 6)

\* next_date_for_dow(dow, ref_date), ref_date given and a well-formed date;
\* not ok is the ValueError, with its message
next_date_for_dow(dow, ref_date) ==
    LET key == first3(lower(strip(dow)))
    IN  IF key \notin DOMAIN dow_map
        THEN [ok |-> FALSE, error |-> "Invalid day of week"]
        ELSE LET today == ref_date
                 target_weekday == dow_map[key]
                 delta == (target_weekday - weekday(today)) % 7
             IN  [ok |-> TRUE,
                  value |-> IF delta = 0 THEN today ELSE today + delta]

\* the day_of_week values of the requests: "monday", "Tue", " wed ",
\* "THURSDAY", "fri", "sat", "Sunday", "monkey", "sunshine", "xyz", " ",
\* "mo" and "m o n"
DowNames ==
    { <<"m", "o", "n", "d", "a", "y">>,
      <<"T", "u", "e">>,
      <<" ", "w", "e", "d", " ">>,
      <<"T", "H", "U", "R", "S", "D", "A", "Y">>,
      <<"f", "r", "i">>,
      <<"s", "a", "t">>,
      <<"S", "u", "n", "d", "a", "y">>,
      <<"m", "o", "n", "k", "e", "y">>,
      <<"s", "u", "n", "s", "h", "i", "n", "e">>,
      <<"x", "y", "z">>,
      <<" ">>,
      <<"m", "o">>,
      <<"m", " ", "o", " ", "n">> }

\* the ref_date values of the requests: the days of two weeks
RefDates == 0..13

\* the day_of_week branch of get_available_slots
AvailabilityByDayOfWeek(day_of_week, ref_date) ==
    LET r == next_date_for_dow(day_of_week, ref_date)
    IN  /\ db' = db
        /\ last' = IF r.ok
                   THEN [op |-> "availabilityByDayOfWeek", response |-> Ok,
                         day_of_week |-> day_of_week, ref_date |-> ref_date,
                         date |-> r.value,
                         slots |-> get_available_slots(db, r.value)]
                   ELSE [op |-> "availabilityByDayOfWeek",
                         response |-> Http(400, r.error),
                         day_of_week |-> day_of_week, ref_date |-> ref_date]
        /\ UNCHANGED calls

NextDayOfWeek ==
    \E day_of_week \in DowNames, ref_date \in RefDates :
        AvailabilityByDayOfWeek(day_of_week, ref_date)

SpecDayOfWeek == Init /\ [][NextDayOfWeek]_vars

----------------------------------------------------------------------------
(* The patients table under requests of two callers: upserts with two      *)
(* names, bookings of three starts and cancellations.                      *)

PatientPhones == {"+1000", "+2000"}

PatientNames == {"Alice", "Bob"}

PatientNotes == {"x", ""}

\* day 0 at 08:30 (before office hours), 09:00 and 09:30
PatientStarts == { At(0, 8, 30, 0), At(0, 9, 0, 0), At(0, 9, 30, 0) }

NextPatients ==
    \/ \E phone \in PatientPhones, name \in PatientNames, notes \in PatientNotes :
           Upsert(phone, name, notes)
    \/ \E phone \in PatientPhones, t \in PatientStarts, note \in Notes :
           Book(phone, t, note)
    \/ \E id \in ApptIds : Cancel(id)

SpecPatients == Init /\ [][NextPatients]_vars

----------------------------------------------------------------------------
(* Requests that overlap in time.  The sync endpoints run on the worker    *)
(* threads, each request with its own session (autocommit=False,           *)
(* autoflush=False) on the one SQLite file.  No handler takes a lock or    *)
(* opens a transaction around its queries: every query reads the           *)
(* committed database when it runs, every commit is one write, and the     *)
(* other requests' statements may run between any two of them.             *)

\* the instants the overlapping requests carry
ConcStarts == { At(0, 9, 0, 0), At(0, 9, 30, 0) }

ConcBlockEnds == { At(0, 9, 30, 0), At(0, 16, 30, 0) }

\* the handler of worker w raises or returns: the session is closed
Respond(w, op, response) ==
    /\ calls' = [calls EXCEPT ![w] = Idle]
    /\ last' = [op |-> op, response |-> response]

\* the handler of worker w moves on to its next statement
Goto(w, frame) ==
    /\ calls' = [calls EXCEPT ![w] = frame]
    /\ UNCHANGED last

\* book_appointment up to its query over availability_exceptions
BookBegin(w, phone, start_dt, note) ==
    LET end_dt == start_dt + HalfHour
    IN  /\ calls[w] = Idle
        /\ UNCHANGED db
        /\ IF ~OnGrid(start_dt)
           THEN Respond(w, "book",
                    Http(400, "Start time must align on 30-minute boundaries."))
           ELSE IF ~WithinOfficeHours(start_dt, end_dt)
           THEN Respond(w, "book", Http(400, "Time is outside office hours."))
           ELSE IF book_blocked(db, start_dt, end_dt)
           THEN Respond(w, "book", Http(400, "Time falls within a blocked period."))
           ELSE Goto(w, [op |-> "book", pc |-> "query_appointments",
                         phone |-> phone, start_dt |-> start_dt,
                         end_dt |-> end_dt, note |-> note])

\* its query over appointments
BookQueryAppointments(w) ==
    /\ calls[w].op = "book" /\ calls[w].pc = "query_appointments"
    /\ UNCHANGED db
    /\ IF book_taken(db, calls[w].start_dt, calls[w].end_dt)
       THEN Respond(w, "book", Http(400, "Slot already booked."))
       ELSE Goto(w, [calls[w] EXCEPT !.pc = "query_patient"])

\* its query over patients
BookQueryPatient(w) ==
    /\ calls[w].op = "book" /\ calls[w].pc = "query_patient"
    /\ UNCHANGED db
    /\ LET found == PatientsByPhone(db, calls[w].phone)
       IN  IF found # {}
           THEN Goto(w, [op |-> "book", pc |-> "add_appointment",
                         patient_id |-> CHOOSE i \in found : TRUE,
                         start_dt |-> calls[w].start_dt,
                         end_dt |-> calls[w].end_dt, note |-> calls[w].note])
           ELSE Goto(w, [calls[w] EXCEPT !.pc = "add_patient"])

\* db.add(patient); db.commit(): phone is a unique column, and the commit
\* of a second row with the phone raises IntegrityError, which is not caught
BookAddPatient(w) ==
    /\ calls[w].op = "book" /\ calls[w].pc = "add_patient"
    /\ IF PatientsByPhone(db, calls[w].phone) # {}
       THEN /\ UNCHANGED db
            /\ Respond(w, "book", ServerError)
       ELSE /\ db' = [db EXCEPT !.patients =
                        Insert(@, [name |-> calls[w].phone,
                                   phone |-> calls[w].phone, notes |-> ""])]
            /\ Goto(w, [op |-> "book", pc |-> "add_appointment",
                        patient_id |-> NextId(db.patients),
                        start_dt |-> calls[w].start_dt,
                        end_dt |-> calls[w].end_dt, note |-> calls[w].note])

\* db.add(appointment); db.commit()
BookAddAppointment(w) ==
    /\ calls[w].op = "book" /\ calls[w].pc = "add_appointment"
    /\ NextId(db.appointments) <= MaxApptId
    /\ db' = [db EXCEPT !.appointments =
                 Insert(@, [patient_id |-> calls[w].patient_id,
                            start_time |-> calls[w].start_dt,
                            end_time |-> calls[w].end_dt,
                            note |-> calls[w].note])]
    /\ Respond(w, "book", Ok)

\* update_appointment up to its load of the appointment
UpdateBegin(w, appt_id, new_start_dt) ==
    LET new_end_dt == new_start_dt + HalfHour
    IN  /\ calls[w] = Idle
        /\ UNCHANGED db
        /\ IF ~OnGrid(new_start_dt)
           THEN Respond(w, "reschedule",
                    Http(400, "Start time must align on 30-minute boundaries."))
           ELSE IF ~WithinOfficeHours(new_start_dt, new_end_dt)
           THEN Respond(w, "reschedule", Http(400, "Time is outside office hours."))
           ELSE IF appt_id \notin DOMAIN db.appointments
           THEN Respond(w, "reschedule", Http(404, "Appointment not found."))
           ELSE Goto(w, [op |-> "reschedule", pc |-> "query_exceptions",
                         appt_id |-> appt_id,
                         loaded |-> db.appointments[appt_id].start_time,
                         new_start_dt |-> new_start_dt,
                         new_end_dt |-> new_end_dt])

\* its query over availability_exceptions
UpdateQueryExceptions(w) ==
    /\ calls[w].op = "reschedule" /\ calls[w].pc = "query_exceptions"
    /\ UNCHANGED db
    /\ IF update_blocked(db, calls[w].new_start_dt, calls[w].new_end_dt)
       THEN Respond(w, "reschedule",
                Http(400, "Time falls within a blocked period."))
       ELSE Goto(w, [calls[w] EXCEPT !.pc = "query_appointments"])

\* its query over appointments
UpdateQueryAppointments(w) ==
    /\ calls[w].op = "reschedule" /\ calls[w].pc = "query_appointments"
    /\ UNCHANGED db
    /\ IF update_taken(db, calls[w].appt_id,
                       calls[w].new_start_dt, calls[w].new_end_dt)
       THEN Respond(w, "reschedule", Http(400, "Slot already booked."))
       ELSE Goto(w, [calls[w] EXCEPT !.pc = "commit"])

\* the assignments and db.commit(); db.refresh(): the session writes the
\* attributes that differ from the loaded ones with UPDATE ... WHERE id,
\* and a row that is gone raises (StaleDataError, or InvalidRequestError in
\* refresh), which is not caught
UpdateCommit(w) ==
    /\ calls[w].op = "reschedule" /\ calls[w].pc = "commit"
    /\ IF calls[w].appt_id \notin DOMAIN db.appointments
       THEN /\ UNCHANGED db
            /\ Respond(w, "reschedule", ServerError)
       ELSE /\ db' = IF calls[w].new_start_dt = calls[w].loaded
                     THEN db
                     ELSE update_write(db, calls[w].appt_id,
                              calls[w].new_start_dt, calls[w].new_end_dt)
            /\ Respond(w, "reschedule", Ok)

\* block_availability up to its query over appointments
BlockBegin(w, start_dt, end_dt) ==
    /\ calls[w] = Idle
    /\ UNCHANGED db
    /\ IF start_dt >= end_dt
       THEN Respond(w, "block", Http(400, "start_time must be before end_time"))
       ELSE IF ~OnGrid(start_dt) \/ ~OnGrid(end_dt)
       THEN Respond(w, "block",
                Http(400, "Blocks must align to 30-minute boundaries."))
       ELSE IF block_hits_appointment(db, start_dt, end_dt)
       THEN Respond(w, "block", Http(400, "Cannot block this time; it is already booked by an existing appointment."))
       ELSE Goto(w, [op |-> "block", pc |-> "query_exceptions",
                     start_dt |-> start_dt, end_dt |-> end_dt])

\* its query over availability_exceptions
BlockQueryExceptions(w) ==
    /\ calls[w].op = "block" /\ calls[w].pc = "query_exceptions"
    /\ UNCHANGED db
    /\ IF block_hits_exception(db, calls[w].start_dt, calls[w].end_dt)
       THEN Respond(w, "block",
                Http(400, "Time falls within a pre-existing blocked period."))
       ELSE Goto(w, [calls[w] EXCEPT !.pc = "commit"])

\* db.add(block); db.commit()
BlockCommit(w) ==
    /\ calls[w].op = "block" /\ calls[w].pc = "commit"
    /\ NextId(db.availability_exceptions) <= MaxBlockId
    /\ db' = block_insert(db, calls[w].start_dt, calls[w].end_dt)
    /\ Respond(w, "block", Ok)

\* delete_appointment up to its load of the appointment
CancelBegin(w, appt_id) ==
    /\ calls[w] = Idle
    /\ UNCHANGED db
    /\ IF appt_id \notin DOMAIN db.appointments
       THEN Respond(w, "cancel", Http(404, "Appointment not found."))
       ELSE Goto(w, [op |-> "cancel", pc |-> "commit", appt_id |-> appt_id])

\* db.delete(appointment); db.commit(): DELETE ... WHERE id; a DELETE that
\* matches no row is a warning of the session, not an exception
CancelCommit(w) ==
    /\ calls[w].op = "cancel" /\ calls[w].pc = "commit"
    /\ db' = [db EXCEPT !.appointments = Delete(@, calls[w].appt_id)]
    /\ Respond(w, "cancel", Ok)

NextConcurrent ==
    \E w \in Workers :
        \/ \E phone \in Phones, t \in ConcStarts, note \in Notes :
               BookBegin(w, phone, t, note)
        \/ BookQueryAppointments(w)
        \/ BookQueryPatient(w)
        \/ BookAddPatient(w)
        \/ BookAddAppointment(w)
        \/ \E id \in 1..MaxApptId, t \in ConcStarts : UpdateBegin(w, id, t)
        \/ UpdateQueryExceptions(w)
        \/ UpdateQueryAppointments(w)
        \/ UpdateCommit(w)
        \/ \E s \in ConcStarts, e \in ConcBlockEnds : BlockBegin(w, s, e)
        \/ BlockQueryExceptions(w)
        \/ BlockCommit(w)
        \/ \E id \in 1..MaxApptId : CancelBegin(w, id)
        \/ CancelCommit(w)

SpecConcurrent == Init /\ [][NextConcurrent]_vars

----------------------------------------------------------------------------
(* What the specification says of intervals, independent of the handlers.  *)

Appts == DOMAIN db.appointments

Excs == DOMAIN db.availability_exceptions

Appt(id) == db.appointments[id]

Exc(id) == db.availability_exceptions[id]

\* half-open intervals [s1, e1) and [s2, e2) share an instant
Overlap(s1, e1, s2, e2) == s1 < e2 /\ s2 < e1

\* on the 30-minute grid: minute 0 or 30 of the hour, no seconds
IsOnGrid(t) == t % HalfHour = 0

\* [s, e) inside the office hours of the date of s
InsideOfficeHours(s, e) ==
    /\ DateOf(s) * SecondsPerDay + 9 * 3600 <= s
    /\ e <= DateOf(s) * SecondsPerDay + 17 * 3600

OverlapsException(s, e) ==
    \E x \in Excs : Overlap(s, e, Exc(x).start_time, Exc(x).end_time)

OverlapsAppointment(s, e) ==
    \E a \in Appts : Overlap(s, e, Appt(a).start_time, Appt(a).end_time)

OverlapsOtherAppointment(id, s, e) ==
    \E a \in Appts \ {id} : Overlap(s, e, Appt(a).start_time, Appt(a).end_time)

Accepted == last.response = Ok

----------------------------------------------------------------------------
(* C1: with the requests served one at a time, no two distinct stored      *)
(* appointments have overlapping half-open intervals.                      *)
NoAppointmentsOverlap ==
    \A a \in Appts, b \in Appts :
        a # b => ~Overlap(Appt(a).start_time, Appt(a).end_time,
                          Appt(b).start_time, Appt(b).end_time)

\* two appointments and an exception are stored, the last request an
\* accepted reschedule
TwoAppointmentsAfterReschedule ==
    /\ Cardinality(Appts) = 2
    /\ Excs # {}
    /\ last.op = "reschedule" /\ Accepted

(* C2: with the requests served one at a time, no stored appointment       *)
(* overlaps a stored availability exception.                               *)
NoAppointmentInException ==
    \A a \in Appts, x \in Excs :
        ~Overlap(Appt(a).start_time, Appt(a).end_time,
                 Exc(x).start_time, Exc(x).end_time)

\* a block was accepted next to a stored appointment: the exception ends
\* where an appointment starts
BlockAcceptedBesideAppointment ==
    /\ last.op = "block" /\ Accepted
    /\ \E a \in Appts, x \in Excs : Exc(x).end_time = Appt(a).start_time

(* C3: with book and reschedule requests overlapping in time, the check    *)
(* and the write of each act as one unit: no state holds two stored        *)
(* appointments that overlap (of two requests for one free slot at most    *)
(* one is accepted).                                                       *)
ConcurrentBookingsExclusive ==
    \A a \in Appts, b \in Appts :
        a # b => \/ Appt(a).end_time <= Appt(b).start_time
                 \/ Appt(b).end_time <= Appt(a).start_time

(* C4: with a book or reschedule request and a block request overlapping   *)
(* in time, at most one of them is accepted: no state holds a stored       *)
(* appointment that overlaps a stored exception.                           *)
ConcurrentBlockExcludesBooking ==
    \A a \in Appts, x \in Excs :
        \/ Appt(a).end_time <= Exc(x).start_time
        \/ Exc(x).end_time <= Appt(a).start_time

(* C5: in every reachable state and for every phone and start, book is     *)
(* rejected iff the start is off the grid, or the slot is not inside       *)
(* office hours, or overlaps an exception, or overlaps an appointment;     *)
(* otherwise it stores exactly one new appointment [start, start+30min).   *)
BookRejectedIffSpecified ==
    \A phone \in Phones, t \in Instants, note \in Notes :
        LET r == book_appointment(db,
                     [phone |-> phone, start_time |-> t, note |-> note])
            e == t + HalfHour
            reject == \/ ~IsOnGrid(t)
                      \/ ~InsideOfficeHours(t, e)
                      \/ OverlapsException(t, e)
                      \/ OverlapsAppointment(t, e)
        IN  /\ (r.response # Ok) <=> reject
            /\ ~reject =>
                 \E id \in DOMAIN r.db.appointments \ Appts :
                    /\ DOMAIN r.db.appointments = Appts \cup {id}
                    /\ r.db.appointments[id].start_time = t
                    /\ r.db.appointments[id].end_time = e
                    /\ \A a \in Appts : r.db.appointments[a] = Appt(a)

(* C6: a rejected book, reschedule or block leaves the appointments, the   *)
(* exceptions and the patients as they were.                               *)
RejectedLeavesLedgers ==
    [][ (last'.op \in {"book", "reschedule", "block"} /\ last'.response # Ok)
            => db' = db ]_vars

\* a booking was rejected as blocked while its phone has no patient row
RejectedBookCreatedNoPatient ==
    /\ last = [op |-> "book",
               response |-> Http(400, "Time falls within a blocked period.")]
    /\ \E phone \in Phones : PatientsByPhone(db, phone) = {}
    /\ Excs # {}

\* the 30-minute slots of date d from office open to office close
GridSlots(d) ==
    { [start |-> d * SecondsPerDay + 9 * 3600 + k * HalfHour,
       end   |-> d * SecondsPerDay + 9 * 3600 + (k + 1) * HalfHour] :
      k \in 0..15 }

FreeSlots(d) ==
    LET slots == get_available_slots(db, d)
    IN  { slots[i] : i \in 1..Len(slots) }

BookedSlots(d) == { s \in GridSlots(d) : OverlapsAppointment(s.start, s.end) }

BlockedSlots(d) == { s \in GridSlots(d) : OverlapsException(s.start, s.end) }

(* C7: for every date the free, the booked and the blocked grid slots are  *)
(* pairwise disjoint and together are all grid slots of the date.          *)
FreeBookedBlockedPartition ==
    \A d \in Dates :
        /\ FreeSlots(d) \cup BookedSlots(d) \cup BlockedSlots(d) = GridSlots(d)
        /\ FreeSlots(d) \cap BookedSlots(d) = {}
        /\ FreeSlots(d) \cap BlockedSlots(d) = {}
        /\ BookedSlots(d) \cap BlockedSlots(d) = {}

(* C8: a grid slot of a date is among its free slots iff a booking of the  *)
(* slot's start would be accepted in the same state.                       *)
FreeSlotsAgreeWithBook ==
    \A d \in Dates, phone \in Phones, note \in Notes :
        \A s \in GridSlots(d) :
            (s \in FreeSlots(d)) <=>
                book_appointment(db, [phone |-> phone, start_time |-> s.start,
                                      note |-> note]).response = Ok

(* C9: a reschedule of a stored appointment is accepted iff the new start  *)
(* is on the grid and the new slot is inside office hours, overlaps no     *)
(* exception and no other appointment; it then replaces both endpoints,    *)
(* and a new slot taken by another appointment is "Slot already booked."   *)
RescheduleAcceptedIffSpecified ==
    \A id \in Appts, t \in Instants :
        LET r == update_appointment(db, id, [new_start_time |-> t])
            e == t + HalfHour
            valid == /\ IsOnGrid(t)
                     /\ InsideOfficeHours(t, e)
                     /\ ~OverlapsException(t, e)
            accept == valid /\ ~OverlapsOtherAppointment(id, t, e)
        IN  /\ (r.response = Ok) <=> accept
            /\ accept =>
                 r.db = [db EXCEPT !.appointments[id].start_time = t,
                                   !.appointments[id].end_time = e]
            /\ (valid /\ OverlapsOtherAppointment(id, t, e)) =>
                 r.response = Http(400, "Slot already booked.")
            /\ (t = Appt(id).start_time) => r.response = Ok

(* C10: after an accepted reschedule of an appointment from t0 to t, a     *)
(* reschedule back to t0 is accepted and gives the database of before the  *)
(* first reschedule.                                                       *)
RescheduleRoundTrip ==
    [][ (last'.op = "reschedule" /\ last'.response = Ok) =>
          \A id \in ApptIds, t \in Instants :
              Reschedule(id, t) =>
                  LET t0 == db.appointments[id].start_time
                      back == update_appointment(db', id, [new_start_time |-> t0])
                  IN  back = Reply(Ok, db) ]_vars

\* an accepted reschedule with a second appointment and an exception stored
RescheduledAmongOthers ==
    /\ last.op = "reschedule" /\ Accepted
    /\ Cardinality(Appts) = 2
    /\ \E a \in Appts, x \in Excs : Exc(x).start_time = Appt(a).end_time

(* C11: a cancel of a stored appointment is always accepted and removes    *)
(* exactly that row: the other appointments, the exceptions and the        *)
(* patients stay as they were; a cancel of an id that is not stored is     *)
(* answered 404 "Appointment not found." and changes nothing.              *)
CancelRemovesExactlyOne ==
    [][ last'.op = "cancel" =>
          \A id \in ApptIds :
              Cancel(id) =>
                  IF id \in Appts
                  THEN /\ last'.response = Ok
                       /\ DOMAIN db'.appointments = Appts \ {id}
                       /\ \A a \in Appts \ {id} : db'.appointments[a] = Appt(a)
                       /\ db'.availability_exceptions = db.availability_exceptions
                       /\ db'.patients = db.patients
                  ELSE /\ last'.response = Http(404, "Appointment not found.")
                       /\ db' = db ]_vars

\* the only appointment was cancelled: its patient is stored without any
\* appointment, beside an exception
CancelledLastAppointmentOfPatient ==
    /\ last.op = "cancel" /\ Accepted
    /\ Appts = {}
    /\ \E phone \in Phones : PatientsByPhone(db, phone) # {}
    /\ Excs # {}

(* C12: in every reachable state and for every pair of endpoints, block is *)
(* accepted iff start < end, both endpoints are on the grid and [start,    *)
(* end) overlaps no appointment and no exception; a rejection names a      *)
(* condition that fails (range, grid, conflict); an accepted block stores  *)
(* exactly one new exception [start, end), inside office hours or not, and *)
(* no block request changes an appointment or a patient.                   *)
BlockAcceptedIffSpecified ==
    \A s \in BlockStarts, e \in BlockEnds :
        LET r == block_availability(db, [start_time |-> s, end_time |-> e])
            grid == IsOnGrid(s) /\ IsOnGrid(e)
            conflict == OverlapsAppointment(s, e) \/ OverlapsException(s, e)
            accept == s < e /\ grid /\ ~conflict
            range_error == Http(400, "start_time must be before end_time")
            grid_error == Http(400, "Blocks must align to 30-minute boundaries.")
            conflict_errors ==
                { Http(400, "Cannot block this time; it is already booked by an existing appointment."),
                  Http(400, "Time falls within a pre-existing blocked period.") }
        IN  /\ (r.response = Ok) <=> accept
            /\ r.response = range_error => s >= e
            /\ r.response = grid_error => ~grid
            /\ r.response \in conflict_errors => conflict
            /\ r.response \in {Ok, range_error, grid_error} \cup conflict_errors
            /\ r.db.appointments = db.appointments
            /\ r.db.patients = db.patients
            /\ accept =>
                 \E id \in DOMAIN r.db.availability_exceptions \ Excs :
                    /\ DOMAIN r.db.availability_exceptions = Excs \cup {id}
                    /\ r.db.availability_exceptions[id].start_time = s
                    /\ r.db.availability_exceptions[id].end_time = e
                    /\ \A x \in Excs : r.db.availability_exceptions[x] = Exc(x)

(* C13: with the requests served one at a time, no two distinct stored     *)
(* availability exceptions have overlapping half-open intervals.           *)
NoExceptionsOverlap ==
    \A x \in Excs, y \in Excs :
        x # y => ~Overlap(Exc(x).start_time, Exc(x).end_time,
                          Exc(y).start_time, Exc(y).end_time)

\* a block was accepted that starts exactly where a stored exception ends
BlockAcceptedTouchingException ==
    /\ last.op = "block" /\ Accepted
    /\ \E x \in Excs, y \in Excs :
          x # y /\ Exc(x).end_time = Exc(y).start_time

\* a patient row with the phone is stored
HasPatient(phone) == \E i \in DOMAIN db.patients : db.patients[i].phone = phone

(* C14: an accepted book for a phone that has a patient leaves the         *)
(* patients table as it was; for a phone without a patient it adds exactly *)
(* one row, with that phone.  No step removes a patient, only an upsert    *)
(* changes the name or the notes of a stored patient, no step changes a    *)
(* stored patient's phone, and no two stored patients share a phone.       *)
BookResolvesPatientByPhone ==
    [][ /\ (last'.op = "book" /\ last'.response = Ok) =>
              \A phone \in PatientPhones, t \in PatientStarts, note \in Notes :
                  Book(phone, t, note) =>
                      IF HasPatient(phone)
                      THEN db'.patients = db.patients
                      ELSE \E id \in DOMAIN db'.patients \ DOMAIN db.patients :
                              /\ DOMAIN db'.patients = DOMAIN db.patients \cup {id}
                              /\ db'.patients[id].phone = phone
                              /\ \A i \in DOMAIN db.patients :
                                     db'.patients[i] = db.patients[i]
        /\ \A i \in DOMAIN db.patients :
              /\ i \in DOMAIN db'.patients
              /\ db'.patients[i].phone = db.patients[i].phone
              /\ db'.patients[i] # db.patients[i] => last'.op = "upsert"
        /\ \A i \in DOMAIN db'.patients, j \in DOMAIN db'.patients :
              i # j => db'.patients[i].phone # db'.patients[j].phone ]_vars

\* the last request booked for a patient whose name an upsert had set,
\* while a second patient is stored
BookedForUpsertedPatient ==
    /\ last.op = "book" /\ Accepted
    /\ Cardinality(DOMAIN db.patients) = 2
    /\ Appts # {}
    /\ db.patients[Appt(SetMax(Appts)).patient_id].name = "Alice"

(* C15: book, reschedule and block reject every instant off the grid, an   *)
(* instant with non-zero seconds included, as a grid error, and so the     *)
(* start of every stored appointment and both endpoints of every stored    *)
(* exception are whole multiples of 30 minutes.                            *)
SecondsAreOffGrid ==
    /\ \A a \in Appts : IsOnGrid(Appt(a).start_time)
    /\ \A x \in Excs : IsOnGrid(Exc(x).start_time) /\ IsOnGrid(Exc(x).end_time)
    /\ \A t \in Instants :
          ~IsOnGrid(t) =>
              /\ \A phone \in Phones, note \in Notes :
                    book_appointment(db, [phone |-> phone, start_time |-> t,
                                          note |-> note]).response
                        = Http(400, "Start time must align on 30-minute boundaries.")
              /\ \A id \in Appts :
                    update_appointment(db, id, [new_start_time |-> t]).response
                        = Http(400, "Start time must align on 30-minute boundaries.")
    /\ \A s \in BlockStarts, e \in BlockEnds :
          (s < e /\ (~IsOnGrid(s) \/ ~IsOnGrid(e))) =>
              block_availability(db, [start_time |-> s, end_time |-> e]).response
                  = Http(400, "Blocks must align to 30-minute boundaries.")

(* C16: a book, reschedule or block request whose date/time text cannot be *)
(* parsed is answered with a client error (status 400, an error the caller *)
(* can act on) and leaves the database as it was.                          *)
UnparsableTextIsClientError ==
    \A text \in IsoTexts :
        ~fromisoformat(text).ok =>
            /\ \A phone \in Phones, note \in Notes :
                  LET r == book_appointment_request(db,
                               [phone |-> phone, start_time |-> text, note |-> note])
                  IN  r.response.code = 400 /\ r.db = db
            /\ \A id \in ApptIds :
                  LET r == update_appointment_request(db, id,
                               [new_start_time |-> text])
                  IN  r.response.code \in {400, 404} /\ r.db = db
            /\ \A other \in IsoTexts :
                  /\ LET r == block_availability_request(db,
                                   [start_time |-> text, end_time |-> other])
                     IN  r.response.code = 400 /\ r.db = db
                  /\ LET r == block_availability_request(db,
                                   [start_time |-> other, end_time |-> text])
                     IN  r.response.code = 400 /\ r.db = db

\* the weekday names among DowNames and the weekday each names
NamedWeekday ==
    (<<"m", "o", "n", "d", "a", "y">> :> 0) @@
    (<<"T", "u", "e">> :> 1) @@
    (<<" ", "w", "e", "d", " ">> :> 2) @@
    (<<"T", "H", "U", "R", "S", "D", "A", "Y">> :> 3) @@
    (<<"f", "r", "i">> :> 4) @@
    (<<"s", "a", "t">> :> 5) @@
    (<<"S", "u", "n", "d", "a", "y">> :> 6)

(* C17: a day-of-week request with a weekday name is answered with the     *)
(* one date from the reference date to six days after it that falls on the *)
(* named weekday; a request with a name that is not a weekday name is      *)
(* answered with the error of an invalid day of week.                      *)
ResolveDayOfWeekAsSpecified ==
    last.op = "availabilityByDayOfWeek" =>
        IF last.day_of_week \in DOMAIN NamedWeekday
        THEN /\ last.response = Ok
             /\ last.date \in last.ref_date..(last.ref_date + 6)
             /\ weekday(last.date) = NamedWeekday[last.day_of_week]
             /\ \A r \in last.ref_date..(last.ref_date + 6) :
                   weekday(r) = NamedWeekday[last.day_of_week] => r = last.date
        ELSE last.response = Http(400, "Invalid day of week")

(* C18: a removeException of a stored exception is accepted and removes    *)
(* exactly that row: the other exceptions, the appointments and the        *)
(* patients stay as they were; a removeException of an id that is not      *)
(* stored is answered 404 "Block not found." and changes nothing.          *)
RemoveExceptionRemovesExactlyOne ==
    [][ last'.op = "removeException" =>
          \A id \in BlockIds :
              RemoveException(id) =>
                  IF id \in Excs
                  THEN /\ last'.response = Ok
                       /\ DOMAIN db'.availability_exceptions = Excs \ {id}
                       /\ \A x \in Excs \ {id} :
                             db'.availability_exceptions[x] = Exc(x)
                       /\ db'.appointments = db.appointments
                       /\ db'.patients = db.patients
                  ELSE /\ last'.response = Http(404, "Block not found.")
                       /\ db' = db ]_vars

\* an exception was removed while another exception and an appointment
\* are stored
RemovedOneOfTwoExceptions ==
    /\ last.op = "removeException" /\ Accepted
    /\ Cardinality(Excs) = 1
    /\ Appts # {}

(* C19: book reports the first failing check in the order grid, office     *)
(* hours, blocking exception, appointment conflict: a start off the grid   *)
(* is a grid error whatever else holds of it, an on-grid start outside     *)
(* office hours is an office-hours error also when it overlaps an          *)
(* exception, and a blocked slot inside office hours is reported blocked   *)
(* also when an appointment overlaps it.                                   *)
BookReportsFirstFailingCheck ==
    \A phone \in Phones, t \in Instants, note \in Notes :
        LET r == book_appointment(db,
                     [phone |-> phone, start_time |-> t, note |-> note]).response
            e == t + HalfHour
        IN  /\ ~IsOnGrid(t) =>
                  r = Http(400, "Start time must align on 30-minute boundaries.")
            /\ (IsOnGrid(t) /\ ~InsideOfficeHours(t, e)) =>
                  r = Http(400, "Time is outside office hours.")
            /\ (IsOnGrid(t) /\ InsideOfficeHours(t, e) /\ OverlapsException(t, e)) =>
                  r = Http(400, "Time falls within a blocked period.")
            /\ (IsOnGrid(t) /\ InsideOfficeHours(t, e) /\ ~OverlapsException(t, e)
                    /\ OverlapsAppointment(t, e)) =>
                  r = Http(400, "Slot already booked.")

(* C20: a reschedule of an appointment id that is not stored is answered   *)
(* 404 "Appointment not found." and changes nothing, whatever the new      *)
(* start: on or off the grid, inside or outside office hours, blocked or   *)
(* free.                                                                   *)
RescheduleOfUnknownIdNotFound ==
    \A id \in ApptIds \ Appts, t \in Instants :
        LET r == update_appointment(db, id, [new_start_time |-> t])
        IN  /\ r.response = Http(404, "Appointment not found.")
            /\ r.db = db

(* C21: every stored appointment ends 30 minutes after its start and lies  *)
(* inside the office hours of the date of its start: it starts at or after *)
(* 09:00 and at or before 16:30 and ends on the same date by 17:00.        *)
AppointmentsAreHalfHoursInOfficeHours ==
    \A a \in Appts :
        /\ Appt(a).end_time = Appt(a).start_time + 30 * 60
        /\ InsideOfficeHours(Appt(a).start_time, Appt(a).end_time)
        /\ Appt(a).start_time <= At(DateOf(Appt(a).start_time), 16, 30, 0)
        /\ DateOf(Appt(a).end_time) = DateOf(Appt(a).start_time)

\* an appointment was rescheduled to the last slot of the day, 16:30
RescheduledToLastSlot ==
    /\ last.op = "reschedule" /\ Accepted
    /\ \E a \in Appts : Appt(a).start_time = At(0, 16, 30, 0)
    /\ Cardinality(Appts) = 2

(* C22: an accepted reschedule changes only the start and the end of the   *)
(* appointment it names: the appointment keeps its id, its patient and its *)
(* note, the stored ids are the same, and every other appointment, every   *)
(* exception and every patient is as before.                               *)
RescheduleChangesOnlyInterval ==
    \A id \in ApptIds, t \in Instants :
        LET r == update_appointment(db, id, [new_start_time |-> t])
        IN  r.response = Ok =>
                /\ id \in Appts
                /\ DOMAIN r.db.appointments = Appts
                /\ r.db.appointments[id].patient_id = Appt(id).patient_id
                /\ r.db.appointments[id].note = Appt(id).note
                /\ r.db.appointments[id].start_time = t
                /\ r.db.appointments[id].end_time = t + 30 * 60
                /\ \A a \in Appts \ {id} : r.db.appointments[a] = Appt(a)
                /\ r.db.availability_exceptions = db.availability_exceptions
                /\ r.db.patients = db.patients

\* an appointment was rescheduled to the next day while another appointment
\* of day 0 and an exception are stored
RescheduledToNextDay ==
    /\ last.op = "reschedule" /\ Accepted
    /\ Excs # {}
    /\ \E a \in Appts, b \in Appts :
          /\ Appt(a).start_time = At(1, 9, 0, 0)
          /\ DateOf(Appt(b).start_time) = 0

\* the free slots of date d that GET /availability gives on database D
FreeSlotsIn(D, d) ==
    LET slots == get_available_slots(D, d)
    IN  { slots[i] : i \in 1..Len(slots) }

\* a booking of start s is accepted on database D
BookableIn(D, s) ==
    \A phone \in Phones, note \in Notes :
        book_appointment(D, [phone |-> phone, start_time |-> s,
                             note |-> note]).response = Ok

(* C23: in every reachable state, a cancel of a stored appointment leaves  *)
(* the slot it occupied among the free slots of its date and bookable; a   *)
(* removeException of a stored exception leaves every grid slot of office  *)
(* hours that the exception overlapped and no other exception overlaps     *)
(* among the free slots and bookable; an accepted reschedule to another    *)
(* start leaves the old slot among the free slots and the new slot not.    *)
DeletionReleasesSlots ==
    /\ \A id \in Appts :
          LET D == delete_appointment(db, id).db
              slot == [start |-> Appt(id).start_time, end |-> Appt(id).end_time]
          IN  /\ slot \in FreeSlotsIn(D, DateOf(slot.start))
              /\ BookableIn(D, slot.start)
    /\ \A x \in Excs : \A d \in Dates : \A slot \in GridSlots(d) :
          LET D == delete_block(db, x).db
          IN  ( /\ Overlap(slot.start, slot.end, Exc(x).start_time, Exc(x).end_time)
                /\ \A y \in Excs \ {x} :
                      ~Overlap(slot.start, slot.end,
                               Exc(y).start_time, Exc(y).end_time) )
              => /\ slot \in FreeSlotsIn(D, d)
                 /\ BookableIn(D, slot.start)
    /\ \A id \in Appts : \A t \in Instants \ {Appt(id).start_time} :
          LET r == update_appointment(db, id, [new_start_time |-> t])
              old == [start |-> Appt(id).start_time, end |-> Appt(id).end_time]
              new == [start |-> t, end |-> t + 30 * 60]
          IN  r.response = Ok =>
                  /\ old \in FreeSlotsIn(r.db, DateOf(old.start))
                  /\ new \notin FreeSlotsIn(r.db, DateOf(new.start))

(* C24: a free-slots request changes no table; the slots it enumerates are *)
(* the 16 consecutive half hours from 09:00 to 17:00 of the date; the      *)
(* slots it returns are among them, in strictly ascending order of start;  *)
(* and the same request on the state it leaves returns the same sequence.  *)
FreeSlotsReadOnlyAndOrdered ==
    [][ last'.op = "availability" =>
          \A d \in Dates :
              Availability(d) =>
                  LET slots == last'.slots
                      all == all_slots(d * SecondsPerDay + 9 * 3600,
                                       d * SecondsPerDay + 17 * 3600)
                  IN  /\ db' = db
                      /\ Len(all) = 16
                      /\ all[1].start = d * SecondsPerDay + 9 * 3600
                      /\ all[16].end = d * SecondsPerDay + 17 * 3600
                      /\ \A i \in 1..16 : all[i].end = all[i].start + 30 * 60
                      /\ \A i \in 1..15 : all[i + 1].start = all[i].end
                      /\ \A i \in 1..Len(slots) : \E k \in 1..16 : slots[i] = all[k]
                      /\ \A i \in 1..(Len(slots) - 1) :
                            slots[i].start < slots[i + 1].start
                      /\ get_available_slots(db', d) = slots ]_vars

\* a free-slots request was answered with some but not all slots of the
\* date, an appointment and an exception being stored
FreeSlotsAroundBookedAndBlocked ==
    /\ last.op = "availability"
    /\ Len(last.slots) \in 2..14
    /\ Appts # {}
    /\ Excs # {}

(* C25: with book requests overlapping in time, no book request for a      *)
(* phone that had no patient ends in an error that is not one of the       *)
(* scheduler's (two such requests for two free slots are both accepted),   *)
(* and no two stored patients share a phone.                               *)
ConcurrentBooksShareNewPatient ==
    /\ last.op = "book" => last.response.code # 500
    /\ \A i \in DOMAIN db.patients, j \in DOMAIN db.patients :
          i # j => db.patients[i].phone # db.patients[j].phone

====
